---- MODULE Spec2Model ----
(***************************************************************************)
(* Conversation-history store and request-assembly pipeline of the Jarvis  *)
(* agent (src/main.py).  Handlers run on one asyncio event loop, so each   *)
(* action is the code between two real suspension points of a handler.     *)
(***************************************************************************)
EXTENDS Integers, Sequences, FiniteSets, TLC

\* ------------------------------------------------------------------ bounds
MaxCalls == 2
MaxHistLen == 53
MaxApiTalks == 1
MaxClock == 2
MaxUpdates == 2

\* ------------------------------------------------------- program constants
WindowSize == 50

Users == {"u1", "u2"}
SearchText == "/search x"
Texts == {"hello", SearchText}
CallIds == 1 .. MaxCalls

\* Replies of call_openrouter and of the search lookup.
NotConfiguredMsg == "AI Service Not Configured"
AuthErrorMsg == "Authentication Error"
RateLimitMsg == "Rate Limit Exceeded"
ConnectionErrorMsg == "Connection Error"
NoneContent == "<None>"
\* f"... (HTTP {response.status_code}) ..."
ServiceErrorMsg(code) == "Service Error (HTTP " \o ToString(code) \o ")"
Placeholders == {NotConfiguredMsg, AuthErrorMsg, RateLimitMsg, ConnectionErrorMsg,
                 ServiceErrorMsg(500), ServiceErrorMsg(503)}
SearchReplies == {"Web Search Results"}

\* Outcomes of the single POST to the completion endpoint: an HTTP status
\* with the reply content, or status 0 for a timeout / transport exception.
GatewayOutcomes ==
    { [status |-> 200, content |-> "hi there"],
      [status |-> 200, content |-> NoneContent],
      [status |-> 401, content |-> ""],
      [status |-> 429, content |-> ""],
      [status |-> 500, content |-> ""],
      [status |-> 0,   content |-> ""] }

\* Outcomes of a remote table operation, and of a write of the JSON document:
\* open(..., 'w') truncates it, so a write that fails leaves it unparsable.
\* Responses the completion endpoint can give, for call_openrouter on its
\* own: the status (0: the request raised), the reply content of a 200 and
\* response.text, the raw body (for status 0 the text of the exception).
GatewayStatuses == {0, 200, 400, 401, 403, 404, 429, 500, 502, 503}
UpstreamBodies == {"", "insufficient credits", "<html>Bad Gateway</html>"}
GatewayResponses ==
    { [status |-> st, content |-> IF st = 200 THEN "hi there" ELSE "", text |-> body] :
        st \in GatewayStatuses, body \in UpstreamBodies }

RemoteOutcomes == {"ok", "error"}
FileOutcomes == {"ok", "partial"}

SystemDirective == [role |-> "system", content |-> "You are Jarvis"]

VARIABLES
    config,           \* AgentConfig: use_supabase, openrouter_api_key
    lists,            \* heap of Python list objects holding turns
    message_history,  \* global dict user_id -> MessageHistory (messages = list object)
    file,             \* message_history.json
    table,            \* remote table "message_history"
    calls,            \* the talk requests, by arrival order
    b_pc, b_history, b_message, b_out,  \* one evaluation of the context builder
    g_pc, g_in, g_out,                  \* call_openrouter evaluated on two responses
    response,         \* what the last step answered to a history or clear request
    clock,            \* the time datetime.utcnow() returns
    tg_updates,       \* the updates Telegram holds for the bot, by update_id
    last_update_id,   \* WebhookTelegramBot.last_update_id
    batch,            \* what is left of the list the for loop of poll_updates walks
    handled,          \* update_ids passed to process_update, in order
    sent,             \* requests the bot has issued, in order
    is_running,       \* WebhookTelegramBot.is_running
    life,             \* the bot's thread: where it stands, what getMe answered,
                      \* and the last update fetched when stop_bot was called
    memory,           \* supabase_memory.memory: None, or a SupabaseMemory and its client
    knowledge_base    \* remote table "knowledge_base", oldest row first

vars == <<config, lists, message_history, file, table, calls,
          b_pc, b_history, b_message, b_out, g_pc, g_in, g_out, response, clock,
          tg_updates, last_update_id, batch, handled, sent, is_running, life,
          memory, knowledge_base>>

buildVars == <<b_pc, b_history, b_message, b_out>>

gateVars == <<g_pc, g_in, g_out>>

botVars == <<tg_updates, last_update_id, batch, handled, sent, is_running, life>>

knowledgeVars == <<memory, knowledge_base>>

pureVars == <<buildVars, gateVars, botVars, knowledgeVars>>

\* str.strip and str.startswith on message texts.
RECURSIVE lstrip(_)
lstrip(s) ==
    IF Len(s) > 0 /\ SubSeq(s, 1, 1) = " " THEN lstrip(SubSeq(s, 2, Len(s))) ELSE s

RECURSIVE rstrip(_)
rstrip(s) ==
    IF Len(s) > 0 /\ SubSeq(s, Len(s), Len(s)) = " "
    THEN rstrip(SubSeq(s, 1, Len(s) - 1)) ELSE s

strip(s) == rstrip(lstrip(s))

startswith(s, prefix) == Len(s) >= Len(prefix) /\ SubSeq(s, 1, Len(prefix)) = prefix

\* str.lower, for the letters A to Z.
UpperCase == "ABCDEFGHIJKLMNOPQRSTUVWXYZ"
LowerCase == "abcdefghijklmnopqrstuvwxyz"

lower_char(ch) ==
    IF \E i \in 1 .. Len(UpperCase) : SubSeq(UpperCase, i, i) = ch
    THEN LET i == CHOOSE i \in 1 .. Len(UpperCase) : SubSeq(UpperCase, i, i) = ch
         IN SubSeq(LowerCase, i, i)
    ELSE ch

RECURSIVE lower(_)
lower(s) ==
    IF Len(s) = 0 THEN s ELSE lower_char(SubSeq(s, 1, 1)) \o lower(SubSeq(s, 2, Len(s)))

\* s[k:]
slice_from(s, k) == SubSeq(s, k + 1, Len(s))

\* Position of the first ":" of s, 0 when it has none.
first_colon(s) ==
    IF \E i \in 1 .. Len(s) : SubSeq(s, i, i) = ":"
    THEN CHOOSE i \in 1 .. Len(s) :
            /\ SubSeq(s, i, i) = ":"
            /\ \A j \in 1 .. i - 1 : SubSeq(s, j, j) /= ":"
    ELSE 0

\* No lookup: the text goes to call_openrouter.
NoLookup == [lookup |-> "none", category |-> "", arg |-> ""]

\* process_special_commands: the lookup the message selects and what it is
\* called with.  The tests are made on the lowered, stripped message, the
\* slices are taken from the message as it came (message[7:], message[10:],
\* message[9:], message[7:], the same in both branches of each conditional).
process_special_commands(message) ==
    LET message_lower == strip(lower(message))
        content == slice_from(message, 9)
        colon == first_colon(content)
    IN CASE startswith(message_lower, "/search ") \/ startswith(message_lower, "search ") ->
              [NoLookup EXCEPT !.lookup = "search", !.arg = slice_from(message, 7)]
         [] startswith(message_lower, "/summarize ") \/ startswith(message_lower, "summarize ") ->
              [NoLookup EXCEPT !.lookup = "summarize", !.arg = slice_from(message, 10)]
         [] message_lower \in {"/time", "time", "what time is it", "current time"} ->
              [NoLookup EXCEPT !.lookup = "time"]
         [] startswith(message_lower, "/remember ") \/ startswith(message_lower, "remember ") ->
              IF colon > 0
              THEN [lookup |-> "remember",
                    category |-> strip(SubSeq(content, 1, colon - 1)),
                    arg |-> strip(slice_from(content, colon))]
              ELSE [lookup |-> "remember", category |-> "general", arg |-> content]
         [] startswith(message_lower, "/recall ") \/ startswith(message_lower, "recall ") ->
              [NoLookup EXCEPT !.lookup = "recall", !.arg = slice_from(message, 7)]
         [] message_lower \in {"/memories", "memories", "show memories"} ->
              [NoLookup EXCEPT !.lookup = "memories"]
         [] OTHER -> NoLookup

\* A field of the body of POST /talk that was left out.
Missing == "<missing>"

\* Command texts, with and without the slash, with blanks and capitals.
CommandTexts ==
    {SearchText, "search x", " /search x", "Search x", "/search",
     "/summarize u", "summarize u", "/time", "what time is it",
     "/remember c:t", "remember c : t:v", "/remember t", "remember t",
     "/recall q", "recall q", " recall q", "recall t", "/memories", "show memories"}

\* process_special_commands on the texts sent to POST /talk, worked out once.
ParsedCommands ==
    [text \in Texts \cup CommandTexts \cup {Missing} |-> process_special_commands(text)]

Parsed(text) ==
    IF text \in DOMAIN ParsedCommands THEN ParsedCommands[text]
    ELSE process_special_commands(text)

\* Absent: a record of the JSON document, an entry of the map (messages is a
\* list object), a row of the remote table (the upsert sends no created_at).
NoRecord == [present |-> FALSE, messages |-> <<>>, created_at |-> 0, updated_at |-> 0]
NoEntry == [present |-> FALSE, messages |-> 0, created_at |-> 0, updated_at |-> 0]
NoRow == [present |-> FALSE, messages |-> <<>>, updated_at |-> 0]

IdleCall == [pc |-> "idle", user |-> "", text |-> "", history |-> 0,
             base |-> <<>>, ctx |-> <<>>, requests |-> 0, writes |-> 0,
             reply |-> "", status |-> 0, store_failed |-> FALSE,
             lookup |-> NoLookup, found |-> <<>>]

\* No history or clear request was answered by the last step.  store_failed
\* tells whether a store operation of the request raised.
NoResponse == [op |-> "none", user |-> "", status |-> 0, messages |-> <<>>,
               count |-> 0, store_failed |-> FALSE]

Max(a, b) == IF a > b THEN a ELSE b

\* ------------------------------------------------------- context builder
RECURSIVE AppendValid(_, _)
\* for msg in history[-50:]: if msg.get("role") in ["user", "assistant"]: append
AppendValid(messages, slice) ==
    IF slice = <<>> THEN messages
    ELSE LET msg == Head(slice)
             next == IF msg.role \in {"user", "assistant"}
                     THEN Append(messages, [role |-> msg.role, content |-> msg.content])
                     ELSE messages
         IN AppendValid(next, Tail(slice))

\* history[-50:]
LastWindow(history) ==
    SubSeq(history, Max(1, Len(history) - WindowSize + 1), Len(history))

\* Faulty builders: one that never truncates, one whose window is one short.
BuildContextNoWindow(message, history) ==
    Append(AppendValid(<<SystemDirective>>, history),
           [role |-> "user", content |-> message])

BuildContextShortWindow(message, history) ==
    Append(AppendValid(<<SystemDirective>>,
                       SubSeq(history, Max(1, Len(history) - WindowSize + 2), Len(history))),
           [role |-> "user", content |-> message])

\* The messages list call_openrouter puts in the payload.
BuildContext(message, history) ==
    Append(AppendValid(<<SystemDirective>>, LastWindow(history)),
           [role |-> "user", content |-> message])


\* ------------------------------------------------------------ the store
\* Faulty test: the placeholder credential passes for a real one.
IsConfiguredIgnoringPlaceholder == config.openrouter_api_key /= "none"

\* not (not config.openrouter_api_key or config.openrouter_api_key == "your_api_key_here")
IsConfigured == config.openrouter_api_key \notin {"none", "your_api_key_here"}

\* Faulty read: the stored history is never found.
get_message_history_empty(user_id, rd) == [obj |-> 0, messages |-> <<>>]

\* Result of get_message_history: the list object returned (obj = 0 for a
\* list created by the call) and its content.  rd is the outcome of the
\* remote select.  Without use_supabase the list returned is the very list
\* the record holds, not a copy.
get_message_history(user_id, rd) ==
    IF config.use_supabase
    THEN IF rd = "ok" /\ table[user_id].present
         THEN [obj |-> 0, messages |-> table[user_id].messages]
         ELSE [obj |-> 0, messages |-> <<>>]
    ELSE IF message_history[user_id].present
         THEN [obj |-> message_history[user_id].messages,
               messages |-> lists[message_history[user_id].messages]]
         ELSE [obj |-> 0, messages |-> <<>>]

\* Outcomes that can differ in the configured backend: the remote table is
\* used only with use_supabase, the JSON document only without it.
ReadOutcomes == IF config.use_supabase THEN RemoteOutcomes ELSE {"ok"}
WriteOutcomes == IF config.use_supabase THEN RemoteOutcomes ELSE {"ok"}
DumpOutcomes == IF config.use_supabase THEN {"ok"} ELSE FileOutcomes

\* What GET /history/{user_id} returns when the store answers.
History(user_id) == get_message_history(user_id, "ok").messages

\* The document json.dump writes for the map mh over the heap ls.
Document(mh, ls) ==
    [u \in Users |-> IF mh[u].present
                     THEN [present |-> TRUE, messages |-> ls[mh[u].messages],
                           created_at |-> mh[u].created_at,
                           updated_at |-> mh[u].updated_at]
                     ELSE NoRecord]

EmptyDocument == [u \in Users |-> NoRecord]

\* save_local_history: open(..., 'w') then json.dump; errors are logged only.
save_local_history(mh, ls, fw) ==
    CASE fw = "ok" -> [corrupt |-> FALSE, doc |-> Document(mh, ls)]
      [] fw = "partial" -> [corrupt |-> TRUE, doc |-> EmptyDocument]

\* Faulty save: the map is rebuilt around the saved user, the other entries
\* are dropped.
save_message_history_alone(mh, user_id, obj) ==
    [v \in Users |->
        IF v = user_id
        THEN IF mh[v].present
             THEN [mh[v] EXCEPT !.messages = obj, !.updated_at = clock]
             ELSE [present |-> TRUE, messages |-> obj,
                   created_at |-> clock, updated_at |-> clock]
        ELSE NoEntry]

\* Faulty save: the MessageHistory is built anew on every save, so that
\* created_at moves with updated_at.
save_message_history_recreating(mh, user_id, obj) ==
    [mh EXCEPT ![user_id] = [present |-> TRUE, messages |-> obj,
                             created_at |-> clock, updated_at |-> clock]]

\* save_message_history without use_supabase, on the map: the entry is
\* created if absent, then given the list and the time of the save.
save_message_history(mh, user_id, obj) ==
    [mh EXCEPT ![user_id] =
        IF @.present
        THEN [@ EXCEPT !.messages = obj, !.updated_at = clock]
        ELSE [present |-> TRUE, messages |-> obj,
              created_at |-> clock, updated_at |-> clock]]

\* The row the upsert of save_message_history leaves in the remote table.
upsert(user_id, messages) ==
    [present |-> TRUE, messages |-> messages, updated_at |-> clock]

\* supabase_memory.memory after AgentConfig(): None without SUPABASE_URL and
\* SUPABASE_KEY, else a SupabaseMemory whose create_client raised or did not.
MemoryStates == {"none", "no_client", "client"}

\* SupabaseMemory.is_available
is_available == memory = "client"

\* A call of the knowledge store: whether it raised, what it returned, and
\* the rows of the table after it.
Returned(value, rows) == [raised |-> FALSE, value |-> value, rows |-> rows]
Raised(rows) == [raised |-> TRUE, value |-> FALSE, rows |-> rows]

Reverse(s) == [i \in 1 .. Len(s) |-> s[Len(s) + 1 - i]]
Take(s, n) == SubSeq(s, 1, IF Len(s) < n THEN Len(s) ELSE n)

\* Faulty store: the insert is made outside the try, its error leaves the method.
memory_store_knowledge_unguarded(user_id, category, content, o) ==
    IF ~is_available THEN Returned(FALSE, knowledge_base)
    ELSE IF o = "ok"
    THEN Returned(TRUE, Append(knowledge_base,
                 [user_id |-> user_id, category |-> category, content |-> content]))
    ELSE Raised(knowledge_base)

\* SupabaseMemory.store_knowledge
memory_store_knowledge(user_id, category, content, o) ==
    IF ~is_available THEN Returned(FALSE, knowledge_base)
    ELSE IF o = "ok"
    THEN Returned(TRUE, Append(knowledge_base,
                 [user_id |-> user_id, category |-> category, content |-> content]))
    ELSE Returned(FALSE, knowledge_base)

\* Faulty retrieval: the query leaves out .eq("user_id", user_id).
memory_retrieve_knowledge_of_all(user_id, limit, o) ==
    IF ~is_available THEN Returned(<<>>, knowledge_base)
    ELSE IF o = "ok"
    THEN Returned(Take(Reverse(knowledge_base), limit), knowledge_base)
    ELSE Returned(<<>>, knowledge_base)

\* SupabaseMemory.retrieve_knowledge with category None: the user's rows,
\* newest first, at most limit of them.
memory_retrieve_knowledge(user_id, limit, o) ==
    IF ~is_available THEN Returned(<<>>, knowledge_base)
    ELSE IF o = "ok"
    THEN Returned(Take(Reverse(SelectSeq(knowledge_base,
                                         LAMBDA r : r.user_id = user_id)), limit),
                  knowledge_base)
    ELSE Returned(<<>>, knowledge_base)

\* SupabaseMemory.search_knowledge: o.matches are the rows the remote text
\* search of content matches with query; when the search fails, the plain
\* retrieval of the user's rows is the answer.
memory_search_knowledge(user_id, query, limit, o) ==
    IF ~is_available THEN Returned(<<>>, knowledge_base)
    ELSE IF o.search = "ok"
    THEN LET hit == {i \in o.matches : knowledge_base[i].user_id = user_id}
             RECURSIVE rows(_)
             rows(i) == IF i > Len(knowledge_base) THEN <<>>
                        ELSE IF i \in hit THEN <<knowledge_base[i]>> \o rows(i + 1)
                        ELSE rows(i + 1)
         IN Returned(Take(rows(1), limit), knowledge_base)
    ELSE memory_retrieve_knowledge(user_id, limit, o.retrieve)

\* The module functions of supabase_memory: nothing is done without a memory.
store_knowledge(user_id, category, content, o) ==
    IF memory /= "none" THEN memory_store_knowledge(user_id, category, content, o)
    ELSE Returned(FALSE, knowledge_base)

retrieve_knowledge(user_id, limit, o) ==
    IF memory /= "none" THEN memory_retrieve_knowledge(user_id, limit, o)
    ELSE Returned(<<>>, knowledge_base)

search_knowledge(user_id, query, o) ==
    IF memory /= "none" THEN memory_search_knowledge(user_id, query, 5, o)
    ELSE Returned(<<>>, knowledge_base)

CouldNotStoreMsg == "Sorry, I couldn't store that in my memory right now."
NoMemoriesMsg == "I don't have any stored memories yet."

\* The numbered lines of a reply that lists memories.
RECURSIVE format_memories(_, _)
format_memories(memories, i) ==
    IF i > Len(memories) THEN ""
    ELSE ToString(i) \o ". " \o memories[i].category \o ": "
         \o Take(memories[i].content, 100) \o "... " \o format_memories(memories, i + 1)

\* The outcomes of the requests a command may make, and the rows a text
\* search matches.
KnowledgeOutcomes(lookup) ==
    [store : IF lookup = "remember" THEN RemoteOutcomes ELSE {"ok"},
     search : IF lookup = "recall" THEN RemoteOutcomes ELSE {"ok"},
     retrieve : IF lookup = "remember" THEN {"ok"} ELSE RemoteOutcomes,
     matches : IF lookup = "recall" THEN SUBSET (1 .. Len(knowledge_base)) ELSE {{}}]

\* The memory commands of process_special_commands: the reply, the rows it
\* lists, and the table afterwards.
memory_command(user_id, cmd, o) ==
    CASE cmd.lookup = "remember" ->
           LET r == store_knowledge(user_id, cmd.category, cmd.arg, o.store)
           IN [raised |-> r.raised, rows |-> r.rows, found |-> <<>>,
               reply |-> IF r.value
                         THEN "I've stored that in my memory under '" \o cmd.category
                              \o "': " \o cmd.arg
                         ELSE CouldNotStoreMsg]
      [] cmd.lookup = "recall" ->
           LET r == search_knowledge(user_id, cmd.arg, o)
           IN [raised |-> r.raised, rows |-> r.rows, found |-> Take(r.value, 3),
               reply |-> IF r.value /= <<>>
                         THEN "Memories related to '" \o cmd.arg \o "': "
                              \o format_memories(Take(r.value, 3), 1)
                         ELSE "I don't have any memories related to '" \o cmd.arg \o "'."]
      [] cmd.lookup = "memories" ->
           LET r == retrieve_knowledge(user_id, 5, o.retrieve)
           IN [raised |-> r.raised, rows |-> r.rows, found |-> r.value,
               reply |-> IF r.value /= <<>>
                         THEN "Recent Memories: " \o format_memories(r.value, 1)
                         ELSE NoMemoriesMsg]

\* What the lookups of web_search answer: a result or an apology, never nothing.
LookupReplies(lookup) ==
    CASE lookup = "search" -> SearchReplies
      [] lookup = "summarize" ->
           {"Webpage Summary", "Sorry, I couldn't summarize the webpage"}
      [] lookup = "time" ->
           {"Current Time Information",
            "Sorry, I couldn't get the current time information."}

\* Faulty interception: no text is recognized, every call goes to the gateway.
CommandOfNothing(text) == "none"

\* process_special_commands: which lookup the text selects.
CommandOf(text) == Parsed(text).lookup

\* Faulty reply: the raw body of a failed request is passed on to the user.
ReplyOfWithBody(outcome) ==
    CASE outcome.status = 200 -> outcome.content
      [] outcome.status = 401 -> AuthErrorMsg
      [] outcome.status = 429 -> RateLimitMsg
      [] outcome.status = 0 -> ConnectionErrorMsg
      [] OTHER -> ServiceErrorMsg(outcome.status) \o ": " \o outcome.text

\* Reply text call_openrouter returns for the outcome of its request.
ReplyOf(outcome) ==
    CASE outcome.status = 200 -> outcome.content
      [] outcome.status = 401 -> AuthErrorMsg
      [] outcome.status = 429 -> RateLimitMsg
      [] outcome.status = 0 -> ConnectionErrorMsg
      [] OTHER -> ServiceErrorMsg(outcome.status)

\* call_openrouter: the configuration test, then the request and its reply.
call_openrouter(outcome) ==
    IF ~IsConfigured THEN NotConfiguredMsg ELSE ReplyOf(outcome)

UserTurn(text, c) == [role |-> "user", content |-> text, call |-> c]

\* Faulty append: a failed upstream call is dropped instead of recorded.
WithAssistantDroppingFailures(history, ai_reply, c) ==
    IF ai_reply \in Placeholders THEN history
    ELSE Append(history, [role |-> "assistant", content |-> ai_reply, call |-> c])

\* history.append(ai_message)
WithAssistant(history, ai_reply, c) ==
    Append(history, [role |-> "assistant", content |-> ai_reply, call |-> c])

\* A list object no in-flight call and no record refers to can no longer be
\* observed; its slot is kept (object identities never change) but emptied.
Collect(ls, mh, cs) ==
    [i \in 1 .. Len(ls) |->
        IF \/ \E u \in Users : mh[u].present /\ mh[u].messages = i
           \/ \E c \in CallIds : cs[c].history = i
        THEN ls[i] ELSE <<>>]

\* talk from the append of the assistant turn to the response:
\* save_message_history, log_agent_thoughts, AIResponse.
Finish(c, cs, ls, ai_reply, wr, fw) ==
    LET u == cs[c].user
        obj == cs[c].history
        ls2 == [ls EXCEPT ![obj] = WithAssistant(@, ai_reply, c)]
        mh2 == IF config.use_supabase THEN message_history
               ELSE save_message_history(message_history, u, obj)
        cs2 == [cs EXCEPT ![c] =
              [@ EXCEPT !.pc = "done", !.reply = ai_reply, !.writes = @ + 1,
                        !.status = IF ai_reply = NoneContent THEN 500 ELSE 200,
                        !.store_failed = @ \/ (config.use_supabase /\ wr = "error"),
                        !.history = 0, !.base = <<>>, !.ctx = <<>>]]
    IN /\ lists' = Collect(ls2, mh2, cs2)
       /\ IF config.use_supabase
          THEN /\ table' = IF wr = "ok"
                           THEN [table EXCEPT ![u] = upsert(u, ls2[obj])]
                           ELSE table
               /\ UNCHANGED <<message_history, file>>
          ELSE /\ message_history' = mh2
               /\ file' = save_local_history(mh2, ls2, fw)
               /\ UNCHANGED table
       /\ calls' = cs2

NextCall(c) == calls[c].pc = "idle" /\ \A d \in CallIds : d < c => calls[d].pc /= "idle"

InFlight(c) == calls[c].pc \in {"lookup", "gateway"}

TalkInFlightFor(u) == \E c \in CallIds : InFlight(c) /\ calls[c].user = u

\* POST /talk up to its first suspension (or to its response when nothing suspends).
TalkStart(c, u, t) ==
    /\ NextCall(c)
    /\ \E rd \in ReadOutcomes, wr \in WriteOutcomes, fw \in DumpOutcomes :
         LET r == get_message_history(u, rd)
             obj == IF r.obj = 0 THEN Len(lists) + 1 ELSE r.obj
             ls0 == IF r.obj = 0 THEN Append(lists, r.messages) ELSE lists
             ls1 == [ls0 EXCEPT ![obj] = Append(@, UserTurn(t, c))]
             cs1 == [calls EXCEPT ![c] =
                        [IdleCall EXCEPT !.user = u, !.text = t, !.history = obj,
                                         !.base = r.messages,
                                         !.store_failed = config.use_supabase /\ rd = "error",
                                         !.lookup = Parsed(t)]]
         IN IF CommandOf(t) \in {"search", "summarize", "time"}
            THEN /\ calls' = [cs1 EXCEPT ![c].pc = "lookup"]
                 /\ lists' = ls1
                 /\ UNCHANGED <<message_history, file, table, knowledge_base>>
            ELSE IF CommandOf(t) \in {"remember", "recall", "memories"}
            THEN \E o \in KnowledgeOutcomes(CommandOf(t)) :
                   LET k == memory_command(u, Parsed(t), o)
                       cs3 == [cs1 EXCEPT ![c].pc = "done", ![c].status = 500,
                                          ![c].history = 0, ![c].base = <<>>]
                   IN /\ knowledge_base' = k.rows
                      /\ IF k.raised
                         THEN /\ calls' = cs3
                              /\ lists' = Collect(ls1, message_history, cs3)
                              /\ UNCHANGED <<message_history, file, table>>
                         ELSE Finish(c, [cs1 EXCEPT ![c].found = k.found], ls1,
                                     k.reply, wr, fw)
            ELSE IF ~IsConfigured
            THEN /\ Finish(c, cs1, ls1, NotConfiguredMsg, wr, fw)
                 /\ UNCHANGED knowledge_base
            ELSE /\ calls' = [cs1 EXCEPT ![c].pc = "gateway", ![c].requests = 1,
                                         ![c].ctx = BuildContext(t, ls1[obj])]
                 /\ lists' = ls1
                 /\ UNCHANGED <<message_history, file, table, knowledge_base>>
    /\ UNCHANGED <<config, clock, clock>>
    /\ UNCHANGED <<buildVars, gateVars, botVars, memory>>
    /\ response' = NoResponse

\* search_internet returned: its text is the reply.
LookupReturn(c) ==
    /\ calls[c].pc = "lookup"
    /\ \E reply \in LookupReplies(calls[c].lookup.lookup),
          wr \in WriteOutcomes, fw \in DumpOutcomes :
         Finish(c, calls, lists, reply, wr, fw)
    /\ UNCHANGED <<config, clock, clock>>
    /\ UNCHANGED pureVars
    /\ response' = NoResponse

\* Faulty return: a request that timed out or raised is issued once more.
GatewayReturnRetrying(c) ==
    /\ calls[c].pc = "gateway"
    /\ \E outcome \in GatewayOutcomes, wr \in WriteOutcomes, fw \in DumpOutcomes :
         IF outcome.status = 0 /\ calls[c].requests < 2
         THEN /\ calls' = [calls EXCEPT ![c].requests = @ + 1]
              /\ UNCHANGED <<lists, message_history, file, table>>
         ELSE Finish(c, calls, lists, ReplyOf(outcome), wr, fw)
    /\ UNCHANGED <<config, clock, clock>>
    /\ UNCHANGED pureVars
    /\ response' = NoResponse

\* The POST to the completion endpoint ended (response, timeout or error).
GatewayReturn(c) ==
    /\ calls[c].pc = "gateway"
    /\ \E outcome \in GatewayOutcomes, wr \in WriteOutcomes, fw \in DumpOutcomes :
         Finish(c, calls, lists, ReplyOf(outcome), wr, fw)
    /\ UNCHANGED <<config, clock, clock>>
    /\ UNCHANGED pureVars
    /\ response' = NoResponse

\* Faulty clear: the entry is dropped from the map but the document is not
\* rewritten, and the remote row is not deleted.
clear_history_unsaved(user_id, ro, fw) ==
    /\ IF ~config.use_supabase /\ message_history[user_id].present
       THEN message_history' = [message_history EXCEPT ![user_id] = NoEntry]
       ELSE UNCHANGED message_history
    /\ UNCHANGED <<file, table>>
    /\ lists' = Collect(lists, message_history', calls)

\* clear_history, its effect on the store: ro is the outcome of the remote
\* delete, fw that of the write of the JSON document.
clear_history(user_id, ro, fw) ==
    /\ IF config.use_supabase
       THEN /\ table' = IF ro = "ok" THEN [table EXCEPT ![user_id] = NoRow] ELSE table
            /\ UNCHANGED <<message_history, file>>
       ELSE IF message_history[user_id].present
       THEN LET mh2 == [message_history EXCEPT ![user_id] = NoEntry]
            IN /\ message_history' = mh2
               /\ file' = save_local_history(mh2, lists, fw)
               /\ UNCHANGED table
       ELSE UNCHANGED <<message_history, file, table>>
    /\ lists' = Collect(lists, message_history', calls)

\* Faulty answer: del message_history[user_id] without the membership test
\* raises for a user that has no entry.
clear_response_strict(user_id, ro, fw) ==
    [op |-> "clear", user |-> user_id,
     status |-> IF config.use_supabase
                THEN IF ro = "error" THEN 500 ELSE 200
                ELSE IF message_history[user_id].present THEN 200 ELSE 500,
     messages |-> <<>>, count |-> 0,
     store_failed |-> IF config.use_supabase THEN ro = "error"
                      ELSE message_history[user_id].present /\ fw /= "ok"]

\* clear_history, its answer: the confirmation, or 500 when the remote
\* delete raised (an error of the document write is logged only).
clear_response(user_id, ro, fw) ==
    [op |-> "clear", user |-> user_id,
     status |-> IF config.use_supabase /\ ro = "error" THEN 500 ELSE 200,
     messages |-> <<>>, count |-> 0,
     store_failed |-> IF config.use_supabase THEN ro = "error"
                      ELSE message_history[user_id].present /\ fw /= "ok"]

\* DELETE /history/{user_id}, by a client that does not look at the answer.
ClearHistory(u) ==
    /\ \E ro \in WriteOutcomes, fw \in DumpOutcomes : clear_history(u, ro, fw)
    /\ UNCHANGED <<config, clock, calls>>
    /\ UNCHANGED pureVars
    /\ response' = NoResponse

\* DELETE /history/{user_id} and its answer.
DeleteHistory(u) ==
    /\ \E ro \in WriteOutcomes, fw \in DumpOutcomes :
         /\ clear_history(u, ro, fw)
         /\ response' = clear_response(u, ro, fw)
    /\ UNCHANGED <<config, clock, calls>>
    /\ UNCHANGED pureVars

\* get_history: the answer to GET /history/{user_id}; rd is the outcome of
\* the remote select.
get_history(user_id, rd) ==
    LET history == get_message_history(user_id, rd).messages
    IN [op |-> "history", user |-> user_id, status |-> 200,
        messages |-> history, count |-> Len(history),
        store_failed |-> config.use_supabase /\ rd = "error"]

\* Faulty handler: the lookup leaves an empty entry behind for a user that
\* had none (as message_history.setdefault would).
GetHistoryCreating(u) ==
    /\ \E rd \in ReadOutcomes : response' = get_history(u, rd)
    /\ IF ~config.use_supabase /\ ~message_history[u].present
       THEN /\ lists' = Append(lists, <<>>)
            /\ message_history' = [message_history EXCEPT
                                      ![u] = [present |-> TRUE, messages |-> Len(lists) + 1,
                                              created_at |-> clock, updated_at |-> clock]]
       ELSE UNCHANGED <<lists, message_history>>
    /\ UNCHANGED <<config, clock, file, table, calls>>
    /\ UNCHANGED pureVars

\* GET /history/{user_id} and its answer.
GetHistory(u) ==
    /\ \E rd \in ReadOutcomes : response' = get_history(u, rd)
    /\ UNCHANGED <<config, clock, lists, message_history, file, table, calls>>
    /\ UNCHANGED pureVars

\* ----------------------------------------------------------------- Init
InitTurns == << [role |-> "user", content |-> "hello", call |-> 0],
                [role |-> "assistant", content |-> "hi there", call |-> 0] >>

Configs == [use_supabase : BOOLEAN,
            openrouter_api_key : {"none", "your_api_key_here", "valid"}]

BuildIdle ==
    /\ b_pc = "off" /\ b_history = <<>> /\ b_message = "" /\ b_out = <<>>

GateIdle == g_pc = "off" /\ g_in = <<>> /\ g_out = <<>>

\* WebhookTelegramBot.__init__, no update received yet.
NoThread == [pc |-> "none", getMe |-> "none", stop_mark |-> -1]

BotIdle ==
    /\ tg_updates = <<>> /\ last_update_id = 0
    /\ batch = <<>> /\ handled = <<>> /\ sent = <<>>
    /\ is_running = FALSE /\ life = NoThread

\* The knowledge store of a start with an empty table: initialize_memory is
\* called when both SUPABASE_URL and SUPABASE_KEY are set.
KnowledgeIdle ==
    /\ memory = (IF config.use_supabase THEN "client" ELSE "none")
    /\ knowledge_base = <<>>

Unobserved == BuildIdle /\ GateIdle /\ BotIdle /\ KnowledgeIdle /\ response = NoResponse

\* The state after module import: config read, message_history loaded from
\* the JSON document.  seeded says whether u1 already has a stored exchange
\* (written at time 0, the time of the start).
InitStore(seeded) ==
    /\ config \in Configs
    /\ clock = 0
    /\ calls = [c \in CallIds |-> IdleCall]
    /\ IF seeded
       THEN /\ lists = <<InitTurns>>
            /\ message_history = [u \in Users |->
                   IF u = "u1" THEN [present |-> TRUE, messages |-> 1,
                                     created_at |-> 0, updated_at |-> 0] ELSE NoEntry]
            /\ file = [corrupt |-> FALSE, doc |-> [u \in Users |->
                   IF u = "u1" THEN [present |-> TRUE, messages |-> InitTurns,
                                     created_at |-> 0, updated_at |-> 0] ELSE NoRecord]]
            /\ table = [u \in Users |->
                   IF u = "u1" THEN [present |-> TRUE, messages |-> InitTurns,
                                     updated_at |-> 0] ELSE NoRow]
       ELSE /\ lists = <<>>
            /\ message_history = [u \in Users |-> NoEntry]
            /\ file = [corrupt |-> FALSE, doc |-> EmptyDocument]
            /\ table = [u \in Users |-> NoRow]

Init == (\E seeded \in BOOLEAN : InitStore(seeded)) /\ Unobserved

Next ==
    \/ \E c \in CallIds, u \in Users, t \in Texts : TalkStart(c, u, t)
    \/ \E c \in CallIds : LookupReturn(c)
    \/ \E c \in CallIds : GatewayReturn(c)
    \/ \E u \in Users : ClearHistory(u)

Spec == Init /\ [][Next]_vars

\* Talk requests only (no DELETE /history).
NextTalk ==
    \/ \E c \in CallIds, u \in Users, t \in Texts : TalkStart(c, u, t)
    \/ \E c \in CallIds : LookupReturn(c)
    \/ \E c \in CallIds : GatewayReturn(c)

SpecTalk == Init /\ [][NextTalk]_vars

\* Talk requests made one after another, on a store that starts empty.
TalkSeq(c, u, t) == (\A d \in CallIds : ~InFlight(d)) /\ TalkStart(c, u, t)

InitSeq == InitStore(FALSE) /\ Unobserved

NextSeq ==
    \/ \E c \in CallIds, u \in Users, t \in Texts : TalkSeq(c, u, t)
    \/ \E c \in CallIds : LookupReturn(c)
    \/ \E c \in CallIds : GatewayReturn(c)

SpecSeq == InitSeq /\ [][NextSeq]_vars

\* Faulty snapshot: any credential counts as ready.
root_any_credential ==
    [status |-> "healthy",
     storage |-> IF config.use_supabase THEN "Supabase" ELSE "Local JSON",
     ai_ready |-> config.openrouter_api_key /= "none"]

\* GET /: what root answers (it reads config and changes nothing).
root ==
    [status |-> "healthy",
     storage |-> IF config.use_supabase THEN "Supabase" ELSE "Local JSON",
     ai_ready |-> config.openrouter_api_key /= "none"
                  /\ config.openrouter_api_key /= "your_api_key_here"]

\* The JSON body of POST /talk: each field of Message present or left out.
Bodies == [text : Texts \cup {Missing}, user_id : Users \cup {Missing}]

\* Faulty model: user_id alone is required, text may be left out.
MessageTextOptional(body) == body.user_id /= Missing

\* Message: text and user_id are both declared required (Field(...)).
Message(body) == body.text /= Missing /\ body.user_id /= Missing

\* POST /talk as the framework serves it: the body is validated against
\* Message before talk is called; a body that fails is answered 422 and talk
\* does not run.
PostTalk(c, body) ==
    IF Message(body)
    THEN TalkSeq(c, body.user_id, body.text)
    ELSE /\ response' = [NoResponse EXCEPT !.op = "talk", !.status = 422]
         /\ UNCHANGED <<config, clock, lists, message_history, file, table, calls>>
         /\ UNCHANGED pureVars

NextPost ==
    \/ \E c \in CallIds, body \in Bodies : PostTalk(c, body)
    \/ \E c \in CallIds : LookupReturn(c)
    \/ \E c \in CallIds : GatewayReturn(c)

SpecPost == Init /\ [][NextPost]_vars

\* History and clear requests whose answers are looked at, on any store,
\* among at most MaxApiTalks talk requests made one after another.
NextApi ==
    \/ \E c \in 1 .. MaxApiTalks, u \in Users, t \in Texts : TalkSeq(c, u, t)
    \/ \E c \in CallIds : LookupReturn(c)
    \/ \E c \in CallIds : GatewayReturn(c)
    \/ \E u \in Users : DeleteHistory(u)
    \/ \E u \in Users : GetHistory(u)

SpecApi == Init /\ [][NextApi]_vars

\* Talk and clear requests that overlap only when they are for different
\* users: a request for a user starts when no talk call of that user is in
\* flight.
NextDistinct ==
    \/ \E c \in CallIds, u \in Users, t \in Texts :
          ~TalkInFlightFor(u) /\ TalkStart(c, u, t)
    \/ \E c \in CallIds : LookupReturn(c)
    \/ \E c \in CallIds : GatewayReturn(c)
    \/ \E u \in Users : ~TalkInFlightFor(u) /\ ClearHistory(u)

SpecDistinct == Init /\ [][NextDistinct]_vars

\* ------------------------------------------------ crash and next start
\* json.load of the document at import; any exception gives {}.
load_local_history(f) == IF f.corrupt THEN EmptyDocument ELSE f.doc

\* The list object that holds a user's turns after a start.
Slot == CHOOSE f \in [Users -> 1 .. Cardinality(Users)] :
            \A a \in Users, b \in Users : a /= b => f[a] /= f[b]

\* Where a kill can fall in save_local_history: before open(..., 'w'), after
\* it (the file is truncated, json.dump not finished), after json.dump.
CrashPoints == {"before_open", "truncated", "written"}

\* The replies a call in flight can be about to save.
RepliesAt(pc) ==
    IF pc = "lookup" THEN SearchReplies ELSE {ReplyOf(o) : o \in GatewayOutcomes}

\* The document as json.dump would complete it for the save of call c.
DocumentSaving(c, reply) ==
    Document(save_message_history(message_history, calls[c].user, calls[c].history),
             [lists EXCEPT ![calls[c].history] = WithAssistant(@, reply, c)])

\* The process is killed while call c, without use_supabase, is in
\* save_local_history, and is started again: message_history is what
\* load_local_history reads, and the requests that were in flight are gone.
CrashInSave(c) ==
    /\ InFlight(c)
    /\ ~config.use_supabase
    /\ \E point \in CrashPoints, reply \in RepliesAt(calls[c].pc) :
         LET f2 == CASE point = "before_open" -> file
                     [] point = "truncated" -> [corrupt |-> TRUE, doc |-> EmptyDocument]
                     [] point = "written" ->
                            [corrupt |-> FALSE, doc |-> DocumentSaving(c, reply)]
             data == load_local_history(f2)
         IN /\ file' = f2
            /\ message_history' = [u \in Users |->
                   IF data[u].present
                   THEN [present |-> TRUE, messages |-> Slot[u],
                         created_at |-> data[u].created_at,
                         updated_at |-> data[u].updated_at]
                   ELSE NoEntry]
            /\ lists' = [i \in 1 .. Cardinality(Users) |->
                   LET u == CHOOSE v \in Users : Slot[v] = i
                   IN IF data[u].present THEN data[u].messages ELSE <<>>]
    /\ calls' = [d \in CallIds |->
                   IF InFlight(d)
                   THEN [calls[d] EXCEPT !.pc = "killed", !.history = 0,
                                         !.base = <<>>, !.ctx = <<>>]
                   ELSE calls[d]]
    /\ UNCHANGED <<config, clock, table>>
    /\ UNCHANGED pureVars
    /\ response' = NoResponse

\* Talk requests, and kills of the process during a save.
NextCrash ==
    \/ \E c \in CallIds, u \in Users, t \in Texts : TalkStart(c, u, t)
    \/ \E c \in CallIds : LookupReturn(c)
    \/ \E c \in CallIds : GatewayReturn(c)
    \/ \E c \in CallIds : CrashInSave(c)

SpecCrash == Init /\ [][NextCrash]_vars

\* Time passes.
Tick ==
    /\ clock < MaxClock
    /\ clock' = clock + 1
    /\ UNCHANGED <<config, lists, message_history, file, table, calls, response>>
    /\ UNCHANGED pureVars

\* Talk requests made one after another while time passes, on any store.
NextClock ==
    \/ \E c \in 1 .. MaxApiTalks, u \in Users, t \in Texts : TalkSeq(c, u, t)
    \/ \E c \in CallIds : LookupReturn(c)
    \/ \E c \in CallIds : GatewayReturn(c)
    \/ Tick

SpecClock == Init /\ [][NextClock]_vars

\* ---------------------------------------- the context builder on its own
\* Histories of every length up to MaxHistLen; turn i carries content "i".
\* Under pattern (k, r) the turns at positions i with i % k = r have a role
\* other than user/assistant (r = k: none has).
PatternRole(i, k, r) ==
    IF i % k = r THEN "tool" ELSE IF i % 2 = 1 THEN "user" ELSE "assistant"

PatternHistory(n, k, r) ==
    [i \in 1 .. n |-> [role |-> PatternRole(i, k, r), content |-> ToString(i), call |-> 0]]

BuildHistories ==
    { PatternHistory(n, kr[1], kr[2]) :
        n \in 0 .. MaxHistLen,
        kr \in { <<k, r>> \in (2 .. 4) \X (0 .. 4) : r <= k } }

InitBuild ==
    /\ InitStore(FALSE)
    /\ config = [use_supabase |-> FALSE, openrouter_api_key |-> "valid"]
    /\ b_pc = "input"
    /\ b_history \in BuildHistories
    /\ b_message = "hello"
    /\ b_out = <<>>
    /\ GateIdle
    /\ BotIdle /\ KnowledgeIdle
    /\ response = NoResponse

Build ==
    /\ b_pc = "input"
    /\ b_out' = BuildContext(b_message, b_history)
    /\ b_pc' = "built"
    /\ UNCHANGED <<config, clock, lists, message_history, file, table, calls, b_history, b_message>>
    /\ UNCHANGED <<gateVars, botVars, knowledgeVars, response>>

NextBuild == Build

SpecBuild == InitBuild /\ [][NextBuild]_vars


\* ------------------------------------------- call_openrouter on its own
\* Two responses of the endpoint, answered under the same configuration.
InitGateway ==
    /\ InitStore(FALSE)
    /\ ~config.use_supabase
    /\ BuildIdle
    /\ g_pc = "input"
    /\ g_in \in GatewayResponses \X GatewayResponses
    /\ g_out = <<>>
    /\ BotIdle /\ KnowledgeIdle
    /\ response = NoResponse

CallOpenrouter ==
    /\ g_pc = "input"
    /\ g_out' = <<call_openrouter(g_in[1]), call_openrouter(g_in[2])>>
    /\ g_pc' = "done"
    /\ UNCHANGED <<config, clock, lists, message_history, file, table, calls, g_in>>
    /\ UNCHANGED <<buildVars, botVars, knowledgeVars, response>>

NextGateway == CallOpenrouter

SpecGateway == InitGateway /\ [][NextGateway]_vars

\* ------------------------------------------------- the Telegram poller
\* Texts sent to the bot: one per branch of process_update, and two with
\* surrounding blanks.
BotTexts == {"hello", " hello ", SearchText, "/start", "/help", " /help", "/history", "/clear"}

\* What Telegram delivers: a text message of a user (in a private chat the
\* chat id is the user id), an update that is no message (an edited message),
\* a message without text (a photo), and a message object lacking its chat.
UpdateShapes ==
    [kind : {"text"}, user : Users, text : BotTexts]
    \cup [kind : {"no_message", "no_text", "malformed"}, user : {""}, text : {""}]

WelcomeMsg == "Welcome to Jarvis AI Agent!"
HelpMsg == "Jarvis AI Agent Commands:"
UnknownCommandMsg == "Unknown command. Use /help to see available commands."
NoHistoryMsg == "No conversation history yet. Start chatting with me!"
RecentConversation == "Recent Conversation:"
HistoryFailedMsg == "Could not fetch conversation history."
HistoryErrorMsg == "Error fetching conversation history."
ClearedMsg == "Conversation history cleared! Let's start fresh."
ClearFailedMsg == "Could not clear conversation history."
ClearErrorMsg == "Error clearing conversation history."
DefaultReply == "Sorry, I couldn't process that."
TalkTroubleMsg == "Sorry, I'm having trouble processing your message right now."
TalkErrorMsg == "Sorry, I encountered an error. Please try again later."

\* What the agent answers to a request of the bot: 200 with or without the
\* expected content, another status, or no answer (status 0: the request
\* raised or timed out).
Answers ==
    { [status |-> 200, body |-> "full"], [status |-> 200, body |-> "empty"],
      [status |-> 500, body |-> "empty"], [status |-> 0, body |-> "empty"] }

\* The answer field of a request to Telegram, whose answer the bot ignores.
NoAnswer == [status |-> 0, body |-> "ignored"]

\* A request of the bot while it handles update n, with the answer it got.
Req(n, req, user, text, a) ==
    [update_id |-> n, req |-> req, user |-> user, text |-> text, answer |-> a]

send_message(n, chat_id, text) == Req(n, "sendMessage", chat_id, text, NoAnswer)

handle_history_command(n, chat_id, user_id, a) ==
    << Req(n, "GET /history", user_id, "", a),
       send_message(n, chat_id,
           CASE a.status = 200 /\ a.body = "full" -> RecentConversation
             [] a.status = 200 /\ a.body = "empty" -> NoHistoryMsg
             [] a.status = 0 -> HistoryErrorMsg
             [] OTHER -> HistoryFailedMsg) >>

handle_clear_command(n, chat_id, user_id, a) ==
    << Req(n, "DELETE /history", user_id, "", a),
       send_message(n, chat_id,
           CASE a.status = 200 -> ClearedMsg
             [] a.status = 0 -> ClearErrorMsg
             [] OTHER -> ClearFailedMsg) >>

\* Faulty handler: a request that got no answer is left without a notice.
handle_message_silent(n, chat_id, user_id, message_text, a) ==
    << Req(n, "sendChatAction", chat_id, "typing", NoAnswer),
       Req(n, "POST /talk", user_id, message_text, a) >>
    \o IF a.status = 0 THEN <<>>
       ELSE << send_message(n, chat_id,
                  CASE a.status = 200 /\ a.body = "full" -> "hi there"
                    [] a.status = 200 /\ a.body = "empty" -> DefaultReply
                    [] OTHER -> TalkTroubleMsg) >>

handle_message(n, chat_id, user_id, message_text, a) ==
    << Req(n, "sendChatAction", chat_id, "typing", NoAnswer),
       Req(n, "POST /talk", user_id, message_text, a),
       send_message(n, chat_id,
           CASE a.status = 200 /\ a.body = "full" -> "hi there"
             [] a.status = 200 /\ a.body = "empty" -> DefaultReply
             [] a.status = 0 -> TalkErrorMsg
             [] OTHER -> TalkTroubleMsg) >>

\* process_update: the requests it issues for one update, a being the answer
\* of the agent to the request it makes (if any).  A KeyError on a malformed
\* message is caught and logged.
process_update(update, a) ==
    IF update.kind /= "text" THEN <<>>
    ELSE LET n == update.update_id
             chat_id == update.user
             user_id == update.user
             text == strip(update.text)
         IN IF startswith(text, "/")
            THEN CASE text = "/start" -> << send_message(n, chat_id, WelcomeMsg) >>
                   [] text = "/help" -> << send_message(n, chat_id, HelpMsg) >>
                   [] text = "/history" -> handle_history_command(n, chat_id, user_id, a)
                   [] text = "/clear" -> handle_clear_command(n, chat_id, user_id, a)
                   [] OTHER -> << send_message(n, chat_id, UnknownCommandMsg) >>
            ELSE handle_message(n, chat_id, user_id, text, a)

\* A user sends something: Telegram queues it under the next update_id.
Arrive(shape) ==
    /\ Len(tg_updates) < MaxUpdates
    /\ tg_updates' = Append(tg_updates,
           [update_id |-> Len(tg_updates) + 1, kind |-> shape.kind,
            user |-> shape.user, text |-> shape.text])
    /\ UNCHANGED <<last_update_id, batch, handled, sent, is_running, life>>
    /\ UNCHANGED <<config, clock, lists, message_history, file, table, calls, response>>
    /\ UNCHANGED <<buildVars, gateVars, knowledgeVars>>

\* Faulty request: the offset is the id of the last update handled.
get_updates_from_last(k) == SubSeq(tg_updates, Max(last_update_id, 1), k)

\* get_updates: Telegram answers getUpdates(offset = last_update_id + 1) with
\* the queued updates from that id up to some k; nothing when the request
\* failed or nothing is queued.
get_updates(k) == SubSeq(tg_updates, last_update_id + 1, k)

\* poll_updates: one round of the loop, from its test of is_running to the
\* start of its for loop.
GetUpdates ==
    /\ life.pc = "polling" /\ is_running
    /\ batch = <<>>
    /\ \E k \in last_update_id .. Len(tg_updates) : batch' = get_updates(k)
    /\ UNCHANGED <<tg_updates, last_update_id, handled, sent, is_running, life>>
    /\ UNCHANGED <<config, clock, lists, message_history, file, table, calls, response>>
    /\ UNCHANGED <<buildVars, gateVars, knowledgeVars>>

\* poll_updates: one pass of the for loop.
ProcessUpdate ==
    /\ life.pc = "polling"
    /\ batch /= <<>>
    /\ \E a \in Answers : sent' = sent \o process_update(Head(batch), a)
    /\ handled' = Append(handled, Head(batch).update_id)
    /\ last_update_id' = Head(batch).update_id
    /\ batch' = Tail(batch)
    /\ UNCHANGED <<tg_updates, is_running, life>>
    /\ UNCHANGED <<config, clock, lists, message_history, file, table, calls, response>>
    /\ UNCHANGED <<buildVars, gateVars, knowledgeVars>>

\* The bot was started and its thread has entered the loop.
InitBot ==
    /\ InitStore(FALSE)
    /\ config = [use_supabase |-> FALSE, openrouter_api_key |-> "valid"]
    /\ BuildIdle /\ GateIdle /\ KnowledgeIdle /\ response = NoResponse
    /\ tg_updates = <<>> /\ last_update_id = 0
    /\ batch = <<>> /\ handled = <<>> /\ sent = <<>>
    /\ is_running = TRUE
    /\ life = [pc |-> "polling", getMe |-> "ok", stop_mark |-> -1]

NextBot ==
    \/ \E shape \in UpdateShapes : Arrive(shape)
    \/ GetUpdates
    \/ ProcessUpdate

SpecBot == InitBot /\ [][NextBot]_vars

\* ------------------------------------------- start and stop of the bot
\* What the getMe request of start_bot can come to: 200 with ok true, 200
\* with ok false, another status, or an exception of the request.
GetMeOutcomes == {"ok", "not_ok", "status", "raised"}

\* Faulty start: the thread is started on any answer with status 200.
start_bot_unchecked(g) == IF g \in {"ok", "not_ok"} THEN "started" ELSE "raised"

\* start_bot: "started" when it returned with the polling thread started,
\* "raised" when it raised before starting one.
start_bot(g) == IF g = "ok" THEN "started" ELSE "raised"

\* lifespan up to its yield, Telegram being enabled: start_telegram_bot
\* builds the bot and calls start_bot; an exception is logged and the
\* service goes on to serve.
LifespanStartup ==
    /\ life.pc = "startup"
    /\ \E g \in GetMeOutcomes :
          life' = [life EXCEPT !.getMe = g,
                               !.pc = IF start_bot(g) = "started" THEN "started" ELSE "no_thread"]
    /\ UNCHANGED <<tg_updates, last_update_id, batch, handled, sent, is_running>>
    /\ UNCHANGED <<config, clock, lists, message_history, file, table, calls, response>>
    /\ UNCHANGED <<buildVars, gateVars, knowledgeVars>>

\* poll_updates, first statement of the thread: is_running = True.
PollStart ==
    /\ life.pc = "started"
    /\ is_running' = TRUE
    /\ life' = [life EXCEPT !.pc = "polling"]
    /\ UNCHANGED <<tg_updates, last_update_id, batch, handled, sent>>
    /\ UNCHANGED <<config, clock, lists, message_history, file, table, calls, response>>
    /\ UNCHANGED <<buildVars, gateVars, knowledgeVars>>

\* poll_updates: the test of the while loop finds is_running false.
PollExit ==
    /\ life.pc = "polling" /\ batch = <<>> /\ ~is_running
    /\ life' = [life EXCEPT !.pc = "exited"]
    /\ UNCHANGED <<tg_updates, last_update_id, batch, handled, sent, is_running>>
    /\ UNCHANGED <<config, clock, lists, message_history, file, table, calls, response>>
    /\ UNCHANGED <<buildVars, gateVars, knowledgeVars>>

\* The id of the last update fetched so far.
LastFetched == IF batch = <<>> THEN last_update_id ELSE batch[Len(batch)].update_id

\* stop_bot, called once after start_bot has returned: is_running = False.
StopBot ==
    /\ life.pc \in {"started", "polling"} /\ life.stop_mark = -1
    /\ is_running' = FALSE
    /\ life' = [life EXCEPT !.stop_mark = LastFetched]
    /\ UNCHANGED <<tg_updates, last_update_id, batch, handled, sent>>
    /\ UNCHANGED <<config, clock, lists, message_history, file, table, calls, response>>
    /\ UNCHANGED <<buildVars, gateVars, knowledgeVars>>

\* The service with Telegram enabled, before lifespan has run.
InitLife ==
    /\ InitStore(FALSE)
    /\ config = [use_supabase |-> FALSE, openrouter_api_key |-> "valid"]
    /\ BuildIdle /\ GateIdle /\ KnowledgeIdle /\ response = NoResponse
    /\ tg_updates = <<>> /\ last_update_id = 0
    /\ batch = <<>> /\ handled = <<>> /\ sent = <<>>
    /\ is_running = FALSE
    /\ life = [NoThread EXCEPT !.pc = "startup"]

NextLife ==
    \/ LifespanStartup
    \/ PollStart
    \/ \E shape \in UpdateShapes : Arrive(shape)
    \/ GetUpdates
    \/ ProcessUpdate
    \/ PollExit
    \/ StopBot

SpecLife == InitLife /\ [][NextLife]_vars

\* The service is past the startup part of lifespan and takes requests.
Serving == life.pc /= "startup"

\* Startup with Telegram enabled, a user writing "hello" to the bot now and
\* then, and the requests the service takes once a failed start of the bot
\* has been absorbed.
NextStartup ==
    \/ LifespanStartup
    \/ PollStart
    \/ Arrive([kind |-> "text", user |-> "u1", text |-> "hello"])
    \/ GetUpdates
    \/ ProcessUpdate
    \/ \E c \in 1 .. MaxApiTalks, u \in Users, t \in Texts :
          life.pc = "no_thread" /\ TalkSeq(c, u, t)
    \/ \E c \in CallIds : LookupReturn(c)
    \/ \E c \in CallIds : GatewayReturn(c)
    \/ \E u \in Users : life.pc = "no_thread" /\ DeleteHistory(u)
    \/ \E u \in Users : life.pc = "no_thread" /\ GetHistory(u)

SpecStartup == InitLife /\ [][NextStartup]_vars

\* Rows the knowledge_base table may hold from earlier runs of the service.
EarlierRows ==
    << [user_id |-> "u1", category |-> "general", content |-> "t"],
       [user_id |-> "u2", category |-> "c", content |-> "t of u2"] >>

\* Any configuration, with or without a knowledge store.  A memory exists
\* when SUPABASE_URL and SUPABASE_KEY were set; config.use_supabase is false
\* although they were if the client of the history table could not be made.
InitMemory ==
    /\ InitStore(FALSE)
    /\ config.openrouter_api_key = "valid"
    /\ BuildIdle /\ GateIdle /\ BotIdle /\ response = NoResponse
    /\ memory \in (IF config.use_supabase THEN MemoryStates \ {"none"} ELSE MemoryStates)
    /\ knowledge_base \in {<<>>, EarlierRows}

\* Texts that store and look up memories.
MemoryTexts == {"/remember c:t", "remember t", "recall t", "/memories"}

\* Memory commands sent to POST /talk, one after the other.
NextMemory == \E c \in CallIds, u \in Users, t \in MemoryTexts : TalkSeq(c, u, t)

SpecMemory == InitMemory /\ [][NextMemory]_vars

\* Every command text, with and without slash, blanks and capitals, sent to
\* POST /talk.
NextCommands ==
    \/ \E c \in 1 .. MaxApiTalks, u \in Users, t \in CommandTexts : TalkSeq(c, u, t)
    \/ \E c \in CallIds : LookupReturn(c)

SpecCommands == InitMemory /\ [][NextCommands]_vars

\* ------------------------------------------------------------ properties
Quiescent == \A c \in CallIds : ~InFlight(c)

CallsOf(u) == {c \in CallIds : calls[c].pc /= "idle" /\ calls[c].user = u}

Contains(h, turn) == \E i \in 1 .. Len(h) : h[i] = turn

IsPrefix(g, h) == Len(g) <= Len(h) /\ \A i \in 1 .. Len(g) : g[i] = h[i]

Strip(turn) == [role |-> turn.role, content |-> turn.content]

\* What the backend holds durably for a user: the row of the remote table,
\* or the user's entry of the JSON document.
Persisted(u) == IF config.use_supabase THEN table[u].messages ELSE file.doc[u].messages

\* C1: no lost update.  A call c that was in flight during the whole of a
\* later call d of the same user (d loaded the history before c persisted, c
\* persists after d) completes; the store answered both and every call of
\* the user is now complete.  Then the stored history holds the USER turn
\* and the ASSISTANT turn of both calls.
C1_NoLostUpdate ==
    [][\A c \in CallIds, d \in CallIds, u \in Users :
          ( /\ InFlight(c) /\ calls'[c].pc = "done" /\ calls[c].user = u
            /\ c < d /\ calls[d].pc = "done" /\ calls[d].user = u
            /\ ~calls'[c].store_failed /\ ~calls[d].store_failed
            /\ \A e \in CallIds : calls'[e].user = u => calls'[e].pc = "done" )
          => \A e \in {c, d} :
                /\ Contains(History(u)', UserTurn(calls'[e].text, e))
                /\ Contains(History(u)',
                       [role |-> "assistant", content |-> calls'[e].reply, call |-> e])]_vars

\* The k-th talk call of user u, in call order.
KthCallOf(u, k) ==
    CHOOSE c \in CallsOf(u) : Cardinality({d \in CallsOf(u) : d <= c}) = k

C3_AppendOnly ==
    [][\A c \in CallIds, u \in Users :
          (calls[c].pc /= "done" /\ calls'[c].pc = "done" /\ calls'[c].user = u)
          => IsPrefix(History(u), History(u)')]_vars

\* C4: a talk call writes the store at most once, and the persisted store
\* never holds a history that ends in the USER turn of a call still in flight.
C4_NoPartialPersistence ==
    /\ \A c \in CallIds : calls[c].writes <= 1
    /\ \A u \in Users :
          LET h == Persisted(u)
          IN h /= <<>> =>
                ~ ( /\ h[Len(h)].role = "user"
                    /\ h[Len(h)].call \in CallIds
                    /\ InFlight(h[Len(h)].call) )

\* C5: while a talk call is between the append of its USER turn and its
\* persist, history(user_id) does not show that USER turn.
C5_WorkingCopyOnly ==
    \A c \in CallIds :
        InFlight(c) => ~Contains(History(calls[c].user), UserTurn(calls[c].text, c))

\* C6: the context sent to the gateway is the system directive, the window
\* of the history as loaded in step 1 (before the append), then the new text.
C6_ContextFromPreAppend ==
    \A c \in CallIds :
        calls[c].pc = "gateway" =>
            LET ctx == calls[c].ctx
                w == LastWindow(calls[c].base)
            IN /\ Len(ctx) = Len(w) + 2
               /\ ctx[1] = SystemDirective
               /\ \A i \in 1 .. Len(w) : ctx[i + 1] = Strip(w[i])
               /\ ctx[Len(ctx)] = [role |-> "user", content |-> calls[c].text]

\* ---- context builder
IsChat(turn) == turn.role \in {"user", "assistant"}

KthOf(S, k) == CHOOSE i \in S : Cardinality({j \in S : j <= i}) = k

\* b_out is: the directive, the turns of b_history at the positions keep in
\* increasing order (role and content), then the new message.
ContextKeeps(keep) ==
    /\ Len(b_out) = Cardinality(keep) + 2
    /\ b_out[1] = SystemDirective
    /\ b_out[Len(b_out)] = [role |-> "user", content |-> b_message]
    /\ \A k \in 1 .. Cardinality(keep) : b_out[k + 1] = Strip(b_history[KthOf(keep, k)])

ChatPositions == {i \in 1 .. Len(b_history) : IsChat(b_history[i])}

\* C7 as stated: the last WindowSize of the user/assistant turns are kept.
C7_LastChatTurns ==
    b_pc = "built" =>
        ContextKeeps({i \in ChatPositions :
                        Cardinality({j \in ChatPositions : j >= i}) <= WindowSize})

\* C7 (amended): the builder returns the system directive, then the
\* user/assistant turns among the last WindowSize turns of the history, in
\* their original order, then the new message as the final user entry.
C7_ChatTurnsOfLastWindow ==
    b_pc = "built" =>
        ContextKeeps({i \in ChatPositions : i > Len(b_history) - WindowSize})

C7_Witness ==
    /\ b_pc = "built"
    /\ Len(b_history) > WindowSize
    /\ \E i \in 1 .. Len(b_history) - WindowSize : IsChat(b_history[i])
    /\ \E i \in 1 .. Len(b_history) : i > Len(b_history) - WindowSize /\ ~IsChat(b_history[i])
    /\ Len(b_out) < WindowSize + 2

\* C8: whatever the length of the history, the context has at most
\* WindowSize + 2 entries.
C8_ContextBounded == b_pc = "built" => Len(b_out) <= WindowSize + 2

C8_Witness ==
    b_pc = "built" /\ Len(b_history) > WindowSize + 2 /\ Len(b_out) = WindowSize + 2

\* C9: with no talk call in flight, every USER turn of every stored history
\* has exactly one ASSISTANT turn of the same call after it, and the history
\* has as many ASSISTANT turns as USER turns, whatever the gateway answered.
C9_EveryUserTurnAnswered ==
    Quiescent =>
        \A u \in Users :
            LET h == History(u)
                U == {i \in 1 .. Len(h) : h[i].role = "user"}
                A == {i \in 1 .. Len(h) : h[i].role = "assistant"}
            IN /\ Cardinality(U) = Cardinality(A)
               /\ \A i \in U :
                     Cardinality({j \in A : j > i /\ h[j].call = h[i].call}) = 1

C9_Witness ==
    /\ Quiescent
    /\ \E c \in CallIds :
          /\ calls[c].pc = "done"
          /\ calls[c].reply = ConnectionErrorMsg
          /\ Contains(History(calls[c].user),
                 [role |-> "assistant", content |-> ConnectionErrorMsg, call |-> c])
    /\ \E c \in CallIds :
          /\ calls[c].pc = "done"
          /\ calls[c].reply = RateLimitMsg
          /\ Contains(History(calls[c].user),
                 [role |-> "assistant", content |-> RateLimitMsg, call |-> c])

Unconfigured == config.openrouter_api_key \in {"none", "your_api_key_here"}

C11_GatewayOutcomeReturned ==
    [][\A c \in CallIds, u \in Users :
          (calls[c].pc = "gateway" /\ calls'[c].pc = "done" /\ calls'[c].user = u)
          => /\ calls'[c].status = 200
             /\ ~calls'[c].store_failed =>
                   LET h == History(u)'
                   IN /\ h /= <<>>
                      /\ h[Len(h)] = [role |-> "assistant",
                                      content |-> calls'[c].reply, call |-> c]]_vars

\* ---- call_openrouter
\* The failure kind of a response under the current configuration.
FailureKind(resp) ==
    IF Unconfigured THEN "NOT_CONFIGURED"
    ELSE CASE resp.status = 200 -> "NONE"
           [] resp.status = 401 -> "UNAUTHORIZED"
           [] resp.status = 429 -> "RATE_LIMITED"
           [] resp.status = 0 -> "TRANSPORT_ERROR"
           [] OTHER -> "UPSTREAM_ERROR"

\* s occurs in t (both strings, s not empty).
Within(s, t) ==
    \E i \in 1 .. Len(t) - Len(s) + 1 : SubSeq(t, i, i + Len(s) - 1) = s

\* C12: responses of two different failure kinds get different messages; an
\* unconfigured service gets the not-configured message and no configured
\* failure does; the message of a kind is fixed (for UPSTREAM_ERROR: fixed
\* per status code, which it shows) and never contains the response body.
C12_DistinctFailureMessages ==
    g_pc = "done" =>
        /\ \A i \in 1 .. 2, j \in 1 .. 2 :
              LET ki == FailureKind(g_in[i])
                  kj == FailureKind(g_in[j])
              IN /\ (ki /= "NONE" /\ kj /= "NONE" /\ ki /= kj) => g_out[i] /= g_out[j]
                 /\ (ki = kj /\ ki \notin {"NONE", "UPSTREAM_ERROR"}) => g_out[i] = g_out[j]
                 /\ (ki = kj /\ ki = "UPSTREAM_ERROR" /\ g_in[i].status = g_in[j].status)
                       => g_out[i] = g_out[j]
        /\ \A i \in 1 .. 2 :
              LET k == FailureKind(g_in[i])
              IN /\ (k = "NOT_CONFIGURED") <=> (g_out[i] = NotConfiguredMsg)
                 /\ k = "UPSTREAM_ERROR" => Within(ToString(g_in[i].status), g_out[i])
                 /\ (k /= "NONE" /\ g_in[i].text /= "") => ~Within(g_in[i].text, g_out[i])

C12_Witness ==
    /\ g_pc = "done"
    /\ FailureKind(g_in[1]) = "UPSTREAM_ERROR"
    /\ FailureKind(g_in[2]) = "RATE_LIMITED"
    /\ g_in[1].text = "insufficient credits"
    /\ g_in[2].text = "insufficient credits"
    /\ g_out[1] = ServiceErrorMsg(g_in[1].status)
    /\ g_out[2] = RateLimitMsg

\* C13: no retry.  A talk call never has more than one request to the
\* completion endpoint to its name: a call waiting for the endpoint has made
\* exactly one, and a call that answered the connection-error text (timeout
\* or transport error) got there after that one request.
C13_SingleRequest ==
    \A c \in CallIds :
        /\ calls[c].requests <= 1
        /\ calls[c].pc = "gateway" => calls[c].requests = 1
        /\ (calls[c].pc = "done" /\ calls[c].reply = ConnectionErrorMsg)
              => calls[c].requests = 1

C13_Witness ==
    \E c \in CallIds :
        /\ calls[c].pc = "done"
        /\ calls[c].reply = ConnectionErrorMsg
        /\ calls[c].status = 200
        /\ calls[c].requests = 1

\* C14: a talk call whose store write failed (the remote upsert raised, so
\* the row does not hold the call's turns; or the write of the JSON document
\* failed) answers with an internal error, not with the reply.
C14_WriteFailureReported ==
    [][\A c \in CallIds, u \in Users :
          ( /\ calls[c].pc /= "done" /\ calls'[c].pc = "done" /\ calls'[c].user = u
            /\ \/ config.use_supabase
                  /\ ~Contains(table'[u].messages, UserTurn(calls'[c].text, c))
               \/ ~config.use_supabase /\ file'.corrupt )
          => calls'[c].status = 500]_vars

\* C15: a talk call whose history read failed does not go on: as long as it
\* has written nothing it is already finished, with an internal error (and
\* so neither reaches the lookup or the gateway nor writes the store later).
C15_ReadFailurePropagates ==
    \A c \in CallIds :
        (calls[c].pc /= "idle" /\ calls[c].store_failed /\ calls[c].writes = 0)
        => (calls[c].pc = "done" /\ calls[c].status = 500)

\* ---- history and clear requests
\* The backend in use holds no record of the user.
RecordAbsent(u) ==
    IF config.use_supabase THEN ~table[u].present ELSE ~message_history[u].present

\* The turns the backend in use holds for the user.
Stored(u) ==
    IF config.use_supabase THEN table[u].messages
    ELSE IF message_history[u].present THEN lists[message_history[u].messages]
    ELSE <<>>

C17_ClearIdempotent ==
    [][\A u \in Users :
          (response'.op = "clear" /\ response'.user = u)
          => /\ \A v \in Users \ {u} :
                   /\ History(v)' = History(v)
                   /\ message_history'[v] = message_history[v]
                   /\ table'[v] = table[v]
             /\ (response'.status = 200 /\ ~response'.store_failed) => RecordAbsent(u)'
             /\ RecordAbsent(u) =>
                   /\ message_history' = message_history
                   /\ file' = file
                   /\ table' = table
                   /\ History(u)' = <<>>
                   /\ ~response'.store_failed => response'.status = 200
                   /\ ~config.use_supabase => response'.status = 200]_vars

C17_Witness ==
    /\ response.op = "clear" /\ response.user = "u2" /\ response.status = 200
    /\ ~config.use_supabase
    /\ \A c \in CallIds : calls[c].user /= "u2"
    /\ message_history["u1"].present
    /\ file.doc["u1"].present

Killed(c) == InFlight(c) /\ calls'[c].pc = "killed"

\* C20: when the process is killed during the save of a talk call and
\* started again, the document found at the start is complete: it is the
\* document from before the save or the one the save was writing, and the
\* map loaded at the start holds the records of that document.
C20_AtomicReplace ==
    [][((\E c \in CallIds : Killed(c)) /\ ~file.corrupt)
          => /\ ~file'.corrupt
             /\ \/ file'.doc = file.doc
                \/ \E c \in CallIds :
                      /\ Killed(c)
                      /\ \E reply \in RepliesAt(calls[c].pc) :
                            file'.doc = DocumentSaving(c, reply)
             /\ \A v \in Users :
                   /\ message_history'[v].present = file'.doc[v].present
                   /\ file'.doc[v].present => Stored(v)' = file'.doc[v].messages]_vars

\* ---- requests of different users
\* The step changes what the store holds for the user.
Changed(v) ==
    \/ History(v)' /= History(v)
    \/ message_history'[v] /= message_history[v]
    \/ table'[v] /= table[v]

C23_BotCommandsReachLookup ==
    \A i \in 1 .. Len(handled) :
        LET update == tg_updates[handled[i]]
            n == update.update_id
        IN (update.kind = "text" /\ CommandOf(strip(update.text)) /= "none")
           => /\ \E j \in 1 .. Len(sent) :
                    /\ sent[j].update_id = n /\ sent[j].req = "POST /talk"
                    /\ sent[j].user = update.user /\ sent[j].text = strip(update.text)
              /\ \A j \in 1 .. Len(sent) :
                    sent[j] /= send_message(n, update.user, UnknownCommandMsg)

\* C24 as stated: a POST /talk whose body lacks text or user_id is answered 400.
C24_RejectedWith400 ==
    [][response'.op = "talk" => response'.status = 400]_vars

\* C24: a POST /talk whose body lacks text or user_id is answered 422 without
\* talk being run: no call is started, no request goes upstream, and the map,
\* its lists, the document and the table are left as they were.  No call ever
\* runs on a body with a field missing.
C24_InvalidBodyRejected ==
    [][/\ response'.op = "talk"
          => /\ response'.status = 422
             /\ UNCHANGED <<calls, lists, message_history, file, table>>
       /\ \A c \in CallIds : calls'[c].text /= Missing /\ calls'[c].user /= Missing]_vars

C24_Witness ==
    /\ response.op = "talk" /\ response.status = 422
    /\ calls[1].pc = "done" /\ calls[1].user = "u1"
    /\ calls[2].pc = "idle"
    /\ Len(History("u1")) = 4

\* C25: what GET / answers agrees with what talk does.  A call whose text is
\* no command issues its upstream request exactly when ai_ready is true and
\* completes at once with the not-configured text exactly when it is false;
\* a call loads its history from, and every step writes to, the backend the
\* storage label names: the remote table under "Supabase", the in-memory map
\* and its document under "Local JSON".
C25_HealthMatchesTalk ==
    [][/\ \A c \in CallIds, u \in Users :
            (calls[c].pc = "idle" /\ calls'[c].pc /= "idle" /\ calls'[c].user = u)
            => /\ calls'[c].text /= SearchText
                  => /\ root.ai_ready <=> (calls'[c].pc = "gateway" /\ calls'[c].requests = 1)
                     /\ ~root.ai_ready <=> (calls'[c].pc = "done" /\ calls'[c].requests = 0
                                            /\ calls'[c].reply = NotConfiguredMsg)
               /\ (root.storage = "Supabase" /\ InFlight(c)')
                  => calls'[c].base = (IF calls'[c].store_failed THEN <<>> ELSE table[u].messages)
               /\ (root.storage = "Local JSON" /\ InFlight(c)')
                  => calls'[c].base = (IF message_history[u].present
                                       THEN lists[message_history[u].messages] ELSE <<>>)
       /\ root.storage = "Supabase" => UNCHANGED <<message_history, file>>
       /\ root.storage = "Local JSON" => UNCHANGED table
       /\ root.storage \in {"Supabase", "Local JSON"}]_vars

C25_Witness ==
    /\ config.openrouter_api_key = "your_api_key_here" /\ ~root.ai_ready
    /\ root.storage = "Supabase"
    /\ calls[1].pc = "done" /\ calls[1].text = "hello" /\ calls[1].user = "u1"
    /\ calls[1].reply = NotConfiguredMsg /\ calls[1].requests = 0
    /\ Len(table["u1"].messages) = 4
    /\ message_history["u1"].present /\ Len(lists[message_history["u1"].messages]) = 2

\* C26: a talk call that loaded a non-empty history and completes when the
\* stored history of its user is empty (a clear went through in between)
\* leaves a stored history holding none of the turns it had loaded.
C26_ClearNotUndone ==
    [][\A c \in CallIds, u \in Users :
          (/\ InFlight(c) /\ calls[c].user = u /\ calls'[c].pc = "done"
           /\ calls[c].base /= <<>> /\ History(u) = <<>>
           /\ ~calls'[c].store_failed)
          => \A i \in 1 .. Len(History(u)') : ~Contains(calls[c].base, History(u)'[i])]_vars

\* C27: a talk call that ends with the 500 response leaves the history of its
\* user as it was loaded at the start of the call (calls made one after
\* another, the store answering).
C27_ErrorLeavesHistory ==
    [][\A c \in CallIds, u \in Users :
          (/\ InFlight(c) /\ calls[c].user = u
           /\ calls'[c].pc = "done" /\ calls'[c].status = 500
           /\ ~calls'[c].store_failed)
          => History(u)' = calls[c].base]_vars

\* C28: in local-file mode, with no talk call in flight, loading the document
\* as the next start would gives every user the turns
\* GET /history/{user_id} returns now.
C28_DocumentAgreesWithMap ==
    (Quiescent /\ ~config.use_supabase)
    => \A u \in Users : load_local_history(file)[u].messages = History(u)

\* C29: the poller passes every update to process_update at most once and in
\* the order of the update ids; after each pass last_update_id is the id of
\* the update just handled, whatever became of its handling; a getUpdates
\* that returns something returns the updates from last_update_id + 1 on;
\* last_update_id never decreases; and no update has two POST /talk requests,
\* also when the first one failed.
C29_EachUpdateOnceInOrder ==
    [][/\ \A i \in 1 .. Len(handled') : \A j \in 1 .. Len(handled') :
             i < j => handled'[i] < handled'[j]
       /\ handled' /= handled
          => /\ handled' = Append(handled, Head(batch).update_id)
             /\ last_update_id' = Head(batch).update_id
       /\ (batch = <<>> /\ batch' /= <<>>)
          => /\ Head(batch').update_id = last_update_id + 1
             /\ \A i \in 1 .. Len(batch') : batch'[i] = tg_updates[last_update_id + i]
       /\ last_update_id' >= last_update_id
       /\ \A i \in 1 .. Len(sent') : \A j \in 1 .. Len(sent') :
             (i < j /\ sent'[i].req = "POST /talk" /\ sent'[j].req = "POST /talk")
             => sent'[i].update_id < sent'[j].update_id]_vars

C29_Witness ==
    /\ handled = <<1, 2>> /\ last_update_id = 2 /\ batch = <<>>
    /\ tg_updates[1].kind = "malformed"
    /\ tg_updates[2].kind = "text" /\ tg_updates[2].text = "hello"
    /\ \E j \in 1 .. Len(sent) : sent[j] = send_message(2, tg_updates[2].user, TalkErrorMsg)

\* The requests the bot made while handling update n, in order.
SentFor(n) == SelectSeq(sent, LAMBDA r : r.update_id = n)

\* What C30 says of a text update that goes to the agent: a typing
\* indicator, one POST /talk with the sender's user id, and one message to
\* the chat, the reply when /talk answered 200 and one notice otherwise.
OneTalkOneMessage(update) ==
    LET rs == SentFor(update.update_id)
    IN /\ Len(rs) = 3
       /\ rs[1].req = "sendChatAction"
       /\ rs[2].req = "POST /talk" /\ rs[2].user = update.user
       /\ rs[3].req = "sendMessage" /\ rs[3].user = update.user
       /\ rs[3].text = (CASE rs[2].answer.status = 200 /\ rs[2].answer.body = "full" -> "hi there"
                          [] rs[2].answer.status = 200 /\ rs[2].answer.body = "empty" -> DefaultReply
                          [] rs[2].answer.status = 0 -> TalkErrorMsg
                          [] OTHER -> TalkTroubleMsg)

\* C30 as stated: every handled text update whose text does not start with
\* '/' got one POST /talk and one message.
C30_TextNotStartingWithSlash ==
    \A i \in 1 .. Len(handled) :
        LET update == tg_updates[handled[i]]
        IN (update.kind = "text" /\ ~startswith(update.text, "/"))
           => OneTalkOneMessage(update)

\* C30: every handled text update whose text, stripped of surrounding
\* blanks, does not start with '/' got exactly one POST /talk with the
\* sender's user id (carrying the stripped text) and exactly one message:
\* the reply when /talk answered 200, one notice otherwise.  An update that
\* is no message, or a message without text, caused no request at all.
C30_OneTalkOneMessage ==
    \A i \in 1 .. Len(handled) :
        LET update == tg_updates[handled[i]]
        IN /\ (update.kind = "text" /\ ~startswith(strip(update.text), "/"))
              => /\ OneTalkOneMessage(update)
                 /\ SentFor(update.update_id)[2].text = strip(update.text)
           /\ update.kind /= "text" => SentFor(update.update_id) = <<>>

C30_Witness ==
    /\ handled = <<1, 2>>
    /\ tg_updates[1].kind = "text" /\ tg_updates[1].text = " hello " /\ tg_updates[1].user = "u2"
    /\ tg_updates[2].kind = "no_text"
    /\ Len(sent) = 3
    /\ sent[2].req = "POST /talk" /\ sent[2].user = "u2" /\ sent[2].text = "hello"
    /\ sent[2].answer.status = 500
    /\ sent[3] = send_message(1, "u2", TalkTroubleMsg)

\* C31: once stop_bot has been called, the thread, when it stands at the test
\* of its loop, finds is_running false (so it leaves the loop), and no update
\* fetched after the call is handled.
C31_StopEndsPolling ==
    life.stop_mark /= -1
    => /\ (life.pc = "polling" /\ batch = <<>>) => ~is_running
       /\ \A i \in 1 .. Len(handled) : handled[i] <= life.stop_mark

\* C32: the polling thread exists only after a getMe answered 200 with ok
\* true.  On any other outcome start_bot has raised, there is no thread,
\* is_running stays false and no update is ever fetched or handled, however
\* many are queued; lifespan has absorbed the exception, and the service is
\* past its startup and takes requests.
C32_ThreadOnlyAfterGetMe ==
    /\ life.pc \in {"started", "polling", "exited"} => life.getMe = "ok"
    /\ life.getMe \in {"not_ok", "status", "raised"}
       => /\ life.pc = "no_thread" /\ Serving
          /\ ~is_running
          /\ batch = <<>> /\ handled = <<>> /\ sent = <<>> /\ last_update_id = 0
    /\ life.getMe = "none" <=> ~Serving
    /\ ~Serving => \A c \in CallIds : calls[c].pc = "idle"

C32_Witness ==
    /\ life.getMe = "not_ok" /\ life.pc = "no_thread"
    /\ Len(tg_updates) = 2 /\ handled = <<>>
    /\ calls[1].pc = "done" /\ calls[1].status = 200 /\ calls[1].user = "u1"
    /\ response.op = "history" /\ response.user = "u1" /\ response.status = 200
    /\ response.count = 2


\* No usable knowledge store: none was initialized, or it has no client.
StoreUnavailable == memory /= "client"

\* Stores and plain retrievals never raise and yield False, or no rows, when
\* the store is unusable or the request fails, whoever asks; a search never
\* raises and yields no rows when the store is unusable.
StoreAndRetrieveContained ==
    \A u \in Users :
        /\ \A o \in RemoteOutcomes :
              LET r == store_knowledge(u, "c", "t", o)
              IN /\ ~r.raised
                 /\ (StoreUnavailable \/ o = "error")
                    => r.value = FALSE /\ r.rows = knowledge_base
        /\ \A o \in RemoteOutcomes :
              LET r == retrieve_knowledge(u, 5, o)
              IN ~r.raised /\ ((StoreUnavailable \/ o = "error") => r.value = <<>>)
        /\ \A o \in KnowledgeOutcomes("recall") :
              LET r == search_knowledge(u, "t", o)
              IN ~r.raised /\ (StoreUnavailable => r.value = <<>>)

\* A remember command is answered 200; its reply is the could-not-store reply
\* exactly when no row was added, which is the case whenever the store is
\* unusable; and, the history store having gone through, the user turn and
\* that reply as the assistant turn end the stored history.
RememberAnswered ==
    \A c \in CallIds, u \in Users :
        (calls[c].pc = "idle" /\ calls'[c].pc = "done" /\ calls'[c].user = u
         /\ calls'[c].lookup.lookup = "remember")
        => /\ calls'[c].status = 200
           /\ StoreUnavailable => knowledge_base' = knowledge_base
           /\ knowledge_base' = knowledge_base <=> calls'[c].reply = CouldNotStoreMsg
           /\ knowledge_base' /= knowledge_base
              => knowledge_base' = Append(knowledge_base,
                     [user_id |-> u, category |-> calls'[c].lookup.category,
                      content |-> calls'[c].lookup.arg])
           /\ ~calls'[c].store_failed
              => LET h == History(u)'
                 IN /\ Len(h) >= 2
                    /\ h[Len(h) - 1] = UserTurn(calls'[c].text, c)
                    /\ h[Len(h)] = [role |-> "assistant", content |-> calls'[c].reply,
                                    call |-> c]

RowsOf(u, rows) ==
    \A i \in 1 .. Len(rows) :
        /\ rows[i].user_id = u
        /\ \E j \in 1 .. Len(knowledge_base) : knowledge_base[j] = rows[i]

\* Every turn GET /history/{u} returns was appended by a call of u (the
\* stored exchange of the start is u1's).
HistoryOf(u) ==
    \A rd \in ReadOutcomes :
        LET h == get_history(u, rd).messages
        IN \A i \in 1 .. Len(h) :
              IF h[i].call = 0 THEN u = "u1" ELSE calls[h[i].call].user = u

\* C34: whatever the remote requests come to and whichever rows the text
\* search matches, a search (its fallback retrieval included) and a retrieval
\* for user u return only rows stored for u; the rows a finished recall or
\* memories call listed were stored for its user; and the history returned
\* for u holds only turns of calls made by u.
C34_LookupsAndHistoryPerUser ==
    /\ \A u \in Users :
          /\ \A o \in KnowledgeOutcomes("recall") :
                RowsOf(u, search_knowledge(u, "t", o).value)
          /\ \A o \in RemoteOutcomes : RowsOf(u, retrieve_knowledge(u, 5, o).value)
          /\ HistoryOf(u)
    /\ \A c \in CallIds :
          calls[c].pc = "done" => RowsOf(calls[c].user, calls[c].found)

C34_Witness ==
    /\ memory = "client"
    /\ Len(knowledge_base) = 3 /\ SubSeq(knowledge_base, 1, 2) = EarlierRows
    /\ calls[1].pc = "done" /\ calls[1].user = "u1" /\ calls[1].text = "/remember c:t"
    /\ knowledge_base[3] = [user_id |-> "u1", category |-> "c", content |-> "t"]
    /\ calls[2].pc = "done" /\ calls[2].user = "u1" /\ calls[2].text = "recall t"
    /\ calls[2].found = <<knowledge_base[3], knowledge_base[1]>>
    /\ Len(History("u1")) = 4 /\ History("u2") = <<>>

\* The prefixes of the commands that take an argument, separating space included.
ArgumentPrefixes ==
    [search |-> {"/search ", "search "}, summarize |-> {"/summarize ", "summarize "},
     remember |-> {"/remember ", "remember "}, recall |-> {"/recall ", "recall "}]

\* The text that follows the prefix of the command and its separating space,
\* blanks before the prefix not counted.
ArgumentOf(lookup, message) ==
    LET body == lstrip(message)
        prefix == CHOOSE p \in ArgumentPrefixes[lookup] : startswith(lower(body), p)
    IN slice_from(body, Len(prefix))

\* C35: a call with a search, summarize or recall command (slash or not,
\* blanks before it or not) invokes the lookup with exactly the text after
\* the prefix and its separating space; a remember command hands the store
\* the text after the prefix, as category "general" when it has no colon,
\* else split at its first colon into category and content, both trimmed.
C35_ArgumentsExact ==
    \A c \in CallIds :
        LET cmd == calls[c].lookup
            text == calls[c].text
        IN calls[c].pc /= "idle"
           => /\ cmd.lookup \in {"search", "summarize", "recall"}
                 => cmd.arg = ArgumentOf(cmd.lookup, text)
              /\ cmd.lookup = "remember"
                 => LET content == ArgumentOf("remember", text)
                        colon == first_colon(content)
                    IN IF colon = 0
                       THEN cmd.category = "general" /\ cmd.arg = content
                       ELSE /\ cmd.category = strip(SubSeq(content, 1, colon - 1))
                            /\ cmd.arg = strip(slice_from(content, colon))
====
